---- MODULE Spec2Model ----
(***************************************************************************)
(* Buffer pool manager (buffer_pool_manager.cpp) and its LRU replacer      *)
(* (lru_replacer.cpp).                                                     *)
(*                                                                         *)
(* Every public operation of the manager runs under latch_ from its first  *)
(* statement to its return, so each operation is one atomic step.  Each    *)
(* operation is written as an operator from the state before the call to   *)
(* the state after it together with the returned value and the calls made  *)
(* on the disk manager; the actions apply these operators to the           *)
(* variables.                                                              *)
(***************************************************************************)
EXTENDS Integers, Sequences, FiniteSets, TLC

\* ---- bounds ----
PoolSize == 2
NumPages == 3
MaxHandles == 2
NumThreads == 2

\* ---- program constants ----
INVALID_PAGE_ID == -1
Nullptr == -1

Frames == 0 .. (PoolSize - 1)
PageIds == 0 .. (NumPages - 1)
Threads == 1 .. NumThreads

VARIABLES pages_, page_table_, free_list_, replacer_, next_page_id, last,
          latch_, replacer_mutex, thread

vars == <<pages_, page_table_, free_list_, replacer_, next_page_id, last,
          latch_, replacer_mutex, thread>>

\* The two mutexes (the set of threads holding each) and the calling threads.
callers == <<latch_, replacer_mutex, thread>>

\* The manager, its replacer and the disk manager's allocation counter as one value.
State ==
  [pages_ |-> pages_, page_table_ |-> page_table_, free_list_ |-> free_list_,
   replacer_ |-> replacer_, next_page_id |-> next_page_id]

\* ---- std::unordered_map<page_id_t, frame_id_t> ----
Find(pt, k) == k \in DOMAIN pt

Erase(pt, k) == [x \in (DOMAIN pt) \ {k} |-> pt[x]]

\* emplace inserts only when the key is absent
Emplace(pt, k, v) ==
  IF k \in DOMAIN pt THEN pt
  ELSE [x \in (DOMAIN pt) \cup {k} |-> IF x = k THEN v ELSE pt[x]]

\* ---- LRUReplacer ----
\* used_list: std::list of frame ids, front = oldest; map: the frame ids that
\* have an entry in the lookup (each entry designates that frame's node of
\* used_list, so erasing through it removes that frame from the list); pinned:
\* the set of pinned frame ids.  The manager is the replacer's only caller.
LRUReplacer(num_pages) ==
  [capacity |-> num_pages, used_list |-> <<>>, map |-> {}, pinned |-> {}]

\* frame_id |-> <<>> : the out parameter was not written.
Victim(r) ==
  IF r.used_list = <<>> THEN [ok |-> FALSE, frame_id |-> <<>>, r |-> r]
  ELSE LET victim == Head(r.used_list)
           r1 == [r EXCEPT !.used_list = Tail(@)]
       IN IF victim \notin r1.map
          THEN [ok |-> FALSE, frame_id |-> <<>>, r |-> r1]
          ELSE [ok |-> TRUE, frame_id |-> <<victim>>,
                r |-> [r1 EXCEPT !.map = @ \ {victim}]]

Pin(r, frame_id) ==
  IF frame_id \notin r.map THEN r
  ELSE [r EXCEPT !.used_list = SelectSeq(@, LAMBDA x : x # frame_id),
                 !.map = @ \ {frame_id},
                 !.pinned = @ \cup {frame_id}]

\* Unpin without lines 47-48: a frame the replacer has not seen is taken as well.
Unpin_Untracked(r, frame_id) ==
  [r EXCEPT !.pinned = @ \ {frame_id},
            !.used_list = Append(@, frame_id),
            !.map = @ \cup {frame_id}]

Unpin(r, frame_id) ==
  IF frame_id \notin r.pinned THEN r
  ELSE [r EXCEPT !.pinned = @ \ {frame_id},
                 !.used_list = Append(@, frame_id),
                 !.map = @ \cup {frame_id}]

Size(r) == Cardinality(r.map) + Cardinality(r.pinned)

\* ---- DiskManager (external collaborator) ----
AllocatePage(s) == [page_id |-> s.next_page_id, s |-> [s EXCEPT !.next_page_id = @ + 1]]

\* ---- results of the manager's operations ----
\* st: the state after the call; ret_ptr: the returned Page* as the index of
\* the frame in pages_ (Nullptr for nullptr); ret_bool: the returned bool;
\* out: the value written through the out parameter, if any; calls: the calls
\* made on the disk manager and Page::ResetMemory, in program order.
Result(s, ret_ptr, ret_bool, out, calls) ==
  [st |-> s, ret_ptr |-> ret_ptr, ret_bool |-> ret_bool, out |-> out, calls |-> calls]

\* FetchPageImpl without line 59: the frame taken stays on the free list.
FetchPageImpl_NoPop(s, page_id) ==
  IF Find(s.page_table_, page_id) THEN
    LET frame_id == s.page_table_[page_id]
        s1 == [s EXCEPT !.pages_[frame_id].pin_count_ = @ + 1,
                        !.replacer_ = Pin(@, frame_id)]
    IN Result(s1, frame_id, FALSE, <<>>, <<>>)
  ELSE
    LET v == Victim(s.replacer_) IN
    IF s.free_list_ = <<>> /\ ~v.ok THEN
      Result([s EXCEPT !.replacer_ = v.r], Nullptr, FALSE, <<>>, <<>>)
    ELSE
      LET frame_id == IF s.free_list_ # <<>> THEN Head(s.free_list_) ELSE v.frame_id[1]
          s1 == IF s.free_list_ # <<>> THEN s
                ELSE [s EXCEPT !.replacer_ = v.r]
          replaced_page == s1.pages_[frame_id]
          c1 == IF replaced_page.is_dirty_
                THEN <<<<"WritePage", replaced_page.page_id_>>>> ELSE <<>>
          s2 == [s1 EXCEPT !.pages_[frame_id].is_dirty_ = FALSE,
                           !.page_table_ = Emplace(Erase(@, replaced_page.page_id_),
                                                   page_id, frame_id)]
          s3 == [s2 EXCEPT !.pages_[frame_id].page_id_ = page_id,
                           !.replacer_ = Pin(@, frame_id),
                           !.pages_[frame_id].pin_count_ = @ + 1]
      IN Result(s3, frame_id, FALSE, <<>>, c1 \o <<<<"ReadPage", page_id>>>>)

\* FetchPageImpl without line 52: a hit does not count the new handle.
FetchPageImpl_HitWithoutPin(s, page_id) ==
  IF Find(s.page_table_, page_id) THEN
    LET frame_id == s.page_table_[page_id]
        s1 == [s EXCEPT !.replacer_ = Pin(@, frame_id)]
    IN Result(s1, frame_id, FALSE, <<>>, <<>>)
  ELSE
    LET v == Victim(s.replacer_) IN
    IF s.free_list_ = <<>> /\ ~v.ok THEN
      Result([s EXCEPT !.replacer_ = v.r], Nullptr, FALSE, <<>>, <<>>)
    ELSE
      LET frame_id == IF s.free_list_ # <<>> THEN Head(s.free_list_) ELSE v.frame_id[1]
          s1 == IF s.free_list_ # <<>> THEN [s EXCEPT !.free_list_ = Tail(@)]
                ELSE [s EXCEPT !.replacer_ = v.r]
          replaced_page == s1.pages_[frame_id]
          c1 == IF replaced_page.is_dirty_
                THEN <<<<"WritePage", replaced_page.page_id_>>>> ELSE <<>>
          s2 == [s1 EXCEPT !.pages_[frame_id].is_dirty_ = FALSE,
                           !.page_table_ = Emplace(Erase(@, replaced_page.page_id_),
                                                   page_id, frame_id)]
          s3 == [s2 EXCEPT !.pages_[frame_id].page_id_ = page_id,
                           !.replacer_ = Pin(@, frame_id),
                           !.pages_[frame_id].pin_count_ = @ + 1]
      IN Result(s3, frame_id, FALSE, <<>>, c1 \o <<<<"ReadPage", page_id>>>>)

FetchPageImpl(s, page_id) ==
  IF Find(s.page_table_, page_id) THEN
    LET frame_id == s.page_table_[page_id]
        s1 == [s EXCEPT !.pages_[frame_id].pin_count_ = @ + 1,
                        !.replacer_ = Pin(@, frame_id)]
    IN Result(s1, frame_id, FALSE, <<>>, <<>>)
  ELSE
    LET v == Victim(s.replacer_) IN
    IF s.free_list_ = <<>> /\ ~v.ok THEN
      Result([s EXCEPT !.replacer_ = v.r], Nullptr, FALSE, <<>>, <<>>)
    ELSE
      LET frame_id == IF s.free_list_ # <<>> THEN Head(s.free_list_) ELSE v.frame_id[1]
          s1 == IF s.free_list_ # <<>> THEN [s EXCEPT !.free_list_ = Tail(@)]
                ELSE [s EXCEPT !.replacer_ = v.r]
          replaced_page == s1.pages_[frame_id]
          c1 == IF replaced_page.is_dirty_
                THEN <<<<"WritePage", replaced_page.page_id_>>>> ELSE <<>>
          s2 == [s1 EXCEPT !.pages_[frame_id].is_dirty_ = FALSE,
                           !.page_table_ = Emplace(Erase(@, replaced_page.page_id_),
                                                   page_id, frame_id)]
          s3 == [s2 EXCEPT !.pages_[frame_id].page_id_ = page_id,
                           !.replacer_ = Pin(@, frame_id),
                           !.pages_[frame_id].pin_count_ = @ + 1]
      IN Result(s3, frame_id, FALSE, <<>>, c1 \o <<<<"ReadPage", page_id>>>>)

\* UnpinPageImpl with lines 89-91 as "is_dirty_ = is_dirty".
UnpinPageImpl_AssignDirty(s, page_id, is_dirty) ==
  IF ~Find(s.page_table_, page_id) THEN Result(s, Nullptr, TRUE, <<>>, <<>>)
  ELSE
    LET frame_id == s.page_table_[page_id]
        s1 == [s EXCEPT !.pages_[frame_id].is_dirty_ = is_dirty]
    IN IF s1.pages_[frame_id].pin_count_ <= 0 THEN Result(s1, Nullptr, FALSE, <<>>, <<>>)
       ELSE
         LET s2 == [s1 EXCEPT !.pages_[frame_id].pin_count_ = @ - 1]
             s3 == IF s2.pages_[frame_id].pin_count_ = 0
                   THEN [s2 EXCEPT !.replacer_ = Unpin(@, frame_id)] ELSE s2
         IN Result(s3, Nullptr, TRUE, <<>>, <<>>)

\* UnpinPageImpl with line 93 as "pin_count_ < 0".
UnpinPageImpl_StrictFloor(s, page_id, is_dirty) ==
  IF ~Find(s.page_table_, page_id) THEN Result(s, Nullptr, TRUE, <<>>, <<>>)
  ELSE
    LET frame_id == s.page_table_[page_id]
        s1 == IF is_dirty THEN [s EXCEPT !.pages_[frame_id].is_dirty_ = TRUE] ELSE s
    IN IF s1.pages_[frame_id].pin_count_ < 0 THEN Result(s1, Nullptr, FALSE, <<>>, <<>>)
       ELSE
         LET s2 == [s1 EXCEPT !.pages_[frame_id].pin_count_ = @ - 1]
             s3 == IF s2.pages_[frame_id].pin_count_ = 0
                   THEN [s2 EXCEPT !.replacer_ = Unpin(@, frame_id)] ELSE s2
         IN Result(s3, Nullptr, TRUE, <<>>, <<>>)

\* UnpinPageImpl with line 85 as "return false".
UnpinPageImpl_NotFoundFalse(s, page_id, is_dirty) ==
  IF ~Find(s.page_table_, page_id) THEN Result(s, Nullptr, FALSE, <<>>, <<>>)
  ELSE
    LET frame_id == s.page_table_[page_id]
        s1 == IF is_dirty THEN [s EXCEPT !.pages_[frame_id].is_dirty_ = TRUE] ELSE s
    IN IF s1.pages_[frame_id].pin_count_ <= 0 THEN Result(s1, Nullptr, FALSE, <<>>, <<>>)
       ELSE
         LET s2 == [s1 EXCEPT !.pages_[frame_id].pin_count_ = @ - 1]
             s3 == IF s2.pages_[frame_id].pin_count_ = 0
                   THEN [s2 EXCEPT !.replacer_ = Unpin(@, frame_id)] ELSE s2
         IN Result(s3, Nullptr, TRUE, <<>>, <<>>)

UnpinPageImpl(s, page_id, is_dirty) ==
  IF ~Find(s.page_table_, page_id) THEN Result(s, Nullptr, TRUE, <<>>, <<>>)
  ELSE
    LET frame_id == s.page_table_[page_id]
        s1 == IF is_dirty THEN [s EXCEPT !.pages_[frame_id].is_dirty_ = TRUE] ELSE s
    IN IF s1.pages_[frame_id].pin_count_ <= 0 THEN Result(s1, Nullptr, FALSE, <<>>, <<>>)
       ELSE
         LET s2 == [s1 EXCEPT !.pages_[frame_id].pin_count_ = @ - 1]
             s3 == IF s2.pages_[frame_id].pin_count_ = 0
                   THEN [s2 EXCEPT !.replacer_ = Unpin(@, frame_id)] ELSE s2
         IN Result(s3, Nullptr, TRUE, <<>>, <<>>)

\* FlushPageImpl without line 109: the dirty flag stays set.
FlushPageImpl_KeepDirty(s, page_id) ==
  IF ~Find(s.page_table_, page_id) THEN Result(s, Nullptr, FALSE, <<>>, <<>>)
  ELSE Result(s, Nullptr, TRUE, <<>>, <<<<"WritePage", page_id>>>>)

FlushPageImpl(s, page_id) ==
  IF ~Find(s.page_table_, page_id) THEN Result(s, Nullptr, FALSE, <<>>, <<>>)
  ELSE
    LET frame_id == s.page_table_[page_id]
    IN Result([s EXCEPT !.pages_[frame_id].is_dirty_ = FALSE], Nullptr, TRUE, <<>>,
              <<<<"WritePage", page_id>>>>)

\* NewPageImpl with line 147 moved before the all_pinned scan.
NewPageImpl_AllocateFirst(s) ==
  LET a == AllocatePage(s)
      new_page_id == a.page_id
      s0 == a.s
      all_pinned == \A i \in Frames : ~(s0.pages_[i].pin_count_ <= 0) IN
  IF ~all_pinned THEN Result(s0, Nullptr, FALSE, <<>>, <<<<"AllocatePage", new_page_id>>>>)
  ELSE
    LET v == Victim(s0.replacer_) IN
    IF s0.free_list_ = <<>> /\ ~v.ok THEN
      Result([s0 EXCEPT !.replacer_ = v.r], Nullptr, FALSE, <<>>,
             <<<<"AllocatePage", new_page_id>>>>)
    ELSE
      LET frame_id == IF s0.free_list_ # <<>> THEN Head(s0.free_list_) ELSE v.frame_id[1]
          s1 == IF s0.free_list_ # <<>> THEN [s0 EXCEPT !.free_list_ = Tail(@)]
                ELSE [s0 EXCEPT !.replacer_ = v.r]
          replaced_page == s1.pages_[frame_id]
          c1 == IF replaced_page.is_dirty_
                THEN <<<<"WritePage", replaced_page.page_id_>>>> ELSE <<>>
          s2 == [s1 EXCEPT !.pages_[frame_id].is_dirty_ = FALSE,
                           !.page_table_ = Erase(@, replaced_page.page_id_)]
          s3 == [s2 EXCEPT !.pages_[frame_id].page_id_ = new_page_id,
                           !.pages_[frame_id].pin_count_ = @ + 1,
                           !.replacer_ = Pin(@, frame_id),
                           !.page_table_ = Emplace(@, new_page_id, frame_id)]
      IN Result(s3, frame_id, FALSE, <<new_page_id>>,
                <<<<"AllocatePage", new_page_id>>>> \o c1 \o <<<<"ResetMemory", frame_id>>>>)

NewPageImpl(s) ==
  LET all_pinned == \A i \in Frames : ~(s.pages_[i].pin_count_ <= 0) IN
  IF ~all_pinned THEN Result(s, Nullptr, FALSE, <<>>, <<>>)
  ELSE
    LET v == Victim(s.replacer_) IN
    IF s.free_list_ = <<>> /\ ~v.ok THEN
      Result([s EXCEPT !.replacer_ = v.r], Nullptr, FALSE, <<>>, <<>>)
    ELSE
      LET frame_id == IF s.free_list_ # <<>> THEN Head(s.free_list_) ELSE v.frame_id[1]
          s1 == IF s.free_list_ # <<>> THEN [s EXCEPT !.free_list_ = Tail(@)]
                ELSE [s EXCEPT !.replacer_ = v.r]
          replaced_page == s1.pages_[frame_id]
          c1 == IF replaced_page.is_dirty_
                THEN <<<<"WritePage", replaced_page.page_id_>>>> ELSE <<>>
          s2 == [s1 EXCEPT !.pages_[frame_id].is_dirty_ = FALSE,
                           !.page_table_ = Erase(@, replaced_page.page_id_)]
          a == AllocatePage(s2)
          new_page_id == a.page_id
          s3 == [a.s EXCEPT !.pages_[frame_id].page_id_ = new_page_id,
                            !.pages_[frame_id].pin_count_ = @ + 1,
                            !.replacer_ = Pin(@, frame_id),
                            !.page_table_ = Emplace(@, new_page_id, frame_id)]
      IN Result(s3, frame_id, FALSE, <<new_page_id>>,
                c1 \o << <<"AllocatePage", new_page_id>>, <<"ResetMemory", frame_id>> >>)

\* DeletePageImpl without line 179: the freed frame keeps its page id.
DeletePageImpl_KeepPageId(s, page_id) ==
  IF ~Find(s.page_table_, page_id) THEN Result(s, Nullptr, TRUE, <<>>, <<>>)
  ELSE
    LET frame_id == s.page_table_[page_id]
        delet_page == s.pages_[frame_id]
    IN IF delet_page.pin_count_ # 0 THEN Result(s, Nullptr, FALSE, <<>>, <<>>)
       ELSE
         LET c1 == IF delet_page.is_dirty_
                   THEN <<<<"WritePage", delet_page.page_id_>>>> ELSE <<>>
             s1 == [s EXCEPT !.page_table_ = Erase(@, page_id),
                             !.pages_[frame_id] =
                                [page_id_ |-> delet_page.page_id_, pin_count_ |-> 0,
                                 is_dirty_ |-> FALSE],
                             !.free_list_ = Append(@, frame_id)]
         IN Result(s1, Nullptr, TRUE, <<>>,
                   c1 \o << <<"DeallocatePage", page_id>>, <<"ResetMemory", frame_id>> >>)

\* DeletePageImpl without line 171: the pin count is not looked at.
DeletePageImpl_NoPinCheck(s, page_id) ==
  IF ~Find(s.page_table_, page_id) THEN Result(s, Nullptr, TRUE, <<>>, <<>>)
  ELSE
    LET frame_id == s.page_table_[page_id]
        delet_page == s.pages_[frame_id]
        c1 == IF delet_page.is_dirty_
              THEN <<<<"WritePage", delet_page.page_id_>>>> ELSE <<>>
        s1 == [s EXCEPT !.page_table_ = Erase(@, page_id),
                        !.pages_[frame_id] =
                           [page_id_ |-> INVALID_PAGE_ID, pin_count_ |-> 0,
                            is_dirty_ |-> FALSE],
                        !.free_list_ = Append(@, frame_id)]
    IN Result(s1, Nullptr, TRUE, <<>>,
              c1 \o << <<"DeallocatePage", page_id>>, <<"ResetMemory", frame_id>> >>)

\* DeletePageImpl with line 182 as "free_list_.push_front(frame_id)".
DeletePageImpl_PushFront(s, page_id) ==
  IF ~Find(s.page_table_, page_id) THEN Result(s, Nullptr, TRUE, <<>>, <<>>)
  ELSE
    LET frame_id == s.page_table_[page_id]
        delet_page == s.pages_[frame_id]
    IN IF delet_page.pin_count_ # 0 THEN Result(s, Nullptr, FALSE, <<>>, <<>>)
       ELSE
         LET c1 == IF delet_page.is_dirty_
                   THEN <<<<"WritePage", delet_page.page_id_>>>> ELSE <<>>
             s1 == [s EXCEPT !.page_table_ = Erase(@, page_id),
                             !.pages_[frame_id] =
                                [page_id_ |-> INVALID_PAGE_ID, pin_count_ |-> 0,
                                 is_dirty_ |-> FALSE],
                             !.free_list_ = <<frame_id>> \o @]
         IN Result(s1, Nullptr, TRUE, <<>>,
                   c1 \o << <<"DeallocatePage", page_id>>, <<"ResetMemory", frame_id>> >>)

DeletePageImpl(s, page_id) ==
  IF ~Find(s.page_table_, page_id) THEN Result(s, Nullptr, TRUE, <<>>, <<>>)
  ELSE
    LET frame_id == s.page_table_[page_id]
        delet_page == s.pages_[frame_id]
    IN IF delet_page.pin_count_ # 0 THEN Result(s, Nullptr, FALSE, <<>>, <<>>)
       ELSE
         LET c1 == IF delet_page.is_dirty_
                   THEN <<<<"WritePage", delet_page.page_id_>>>> ELSE <<>>
             s1 == [s EXCEPT !.page_table_ = Erase(@, page_id),
                             !.pages_[frame_id] =
                                [page_id_ |-> INVALID_PAGE_ID, pin_count_ |-> 0,
                                 is_dirty_ |-> FALSE],
                             !.free_list_ = Append(@, frame_id)]
         IN Result(s1, Nullptr, TRUE, <<>>,
                   c1 \o << <<"DeallocatePage", page_id>>, <<"ResetMemory", frame_id>> >>)

\* The loop of FlushAllPagesImpl over frames i .. pool_size_ - 1.
RECURSIVE FlushAllFrom(_, _, _)
FlushAllFrom(s, calls, i) ==
  IF i >= PoolSize THEN Result(s, Nullptr, FALSE, <<>>, calls)
  ELSE LET curr_page == s.pages_[i] IN
       IF curr_page.page_id_ # INVALID_PAGE_ID /\ curr_page.is_dirty_
       THEN FlushAllFrom([s EXCEPT !.pages_[i].is_dirty_ = FALSE],
                         Append(calls, <<"WritePage", curr_page.page_id_>>), i + 1)
       ELSE FlushAllFrom(s, calls, i + 1)

FlushAllPagesImpl(s) == FlushAllFrom(s, <<>>, 0)

\* ---- the calling threads ----
\* A thread outside every call.
Idle ==
  [pc |-> "idle", op |-> "none", page_id |-> INVALID_PAGE_ID, is_dirty |-> FALSE,
   seen |-> <<>>, rcalls |-> 0, res |-> <<>>]

\* The calls a thread can make.
Calls ==
  {[op |-> "FetchPage", page_id |-> p, is_dirty |-> FALSE] : p \in PageIds}
  \cup {[op |-> "UnpinPage", page_id |-> p, is_dirty |-> d] : p \in PageIds, d \in BOOLEAN}
  \cup {[op |-> "FlushPage", page_id |-> p, is_dirty |-> FALSE] : p \in PageIds}
  \cup {[op |-> "NewPage", page_id |-> INVALID_PAGE_ID, is_dirty |-> FALSE]}
  \cup {[op |-> "DeletePage", page_id |-> p, is_dirty |-> FALSE] : p \in PageIds}
  \cup {[op |-> "FlushAllPages", page_id |-> INVALID_PAGE_ID, is_dirty |-> FALSE]}

\* The body of the call c run on state s.
Apply(s, c) ==
  CASE c.op = "FetchPage" -> FetchPageImpl(s, c.page_id)
    [] c.op = "UnpinPage" -> UnpinPageImpl(s, c.page_id, c.is_dirty)
    [] c.op = "FlushPage" -> FlushPageImpl(s, c.page_id)
    [] c.op = "NewPage" -> NewPageImpl(s)
    [] c.op = "DeletePage" -> DeletePageImpl(s, c.page_id)
    [] c.op = "FlushAllPages" -> FlushAllPagesImpl(s)

\* How many replacer_-> calls the body of c makes on state s; each takes and
\* gives back replacer_mutex.
ReplacerCalls(s, c) ==
  CASE c.op = "FetchPage" ->
         IF Find(s.page_table_, c.page_id) \/ s.free_list_ # <<>> THEN 1
         ELSE IF Victim(s.replacer_).ok THEN 2 ELSE 1
    [] c.op = "UnpinPage" ->
         IF /\ Find(s.page_table_, c.page_id)
            /\ s.pages_[s.page_table_[c.page_id]].pin_count_ = 1
         THEN 1 ELSE 0
    [] c.op = "NewPage" ->
         IF \E i \in Frames : s.pages_[i].pin_count_ <= 0 THEN 0
         ELSE IF s.free_list_ # <<>> THEN 1
         ELSE IF Victim(s.replacer_).ok THEN 2 ELSE 1
    [] OTHER -> 0

\* ---- the state machine ----
Init ==
  /\ pages_ = [i \in Frames |->
                 [page_id_ |-> INVALID_PAGE_ID, pin_count_ |-> 0, is_dirty_ |-> FALSE]]
  /\ page_table_ = <<>>
  /\ free_list_ = [i \in 1 .. PoolSize |-> i - 1]
  /\ replacer_ = LRUReplacer(PoolSize)
  /\ next_page_id = 0
  /\ last = [op |-> "Init", page_id |-> INVALID_PAGE_ID, is_dirty |-> FALSE,
             ret_ptr |-> Nullptr, ret_bool |-> FALSE, out |-> <<>>, calls |-> <<>>]
  /\ latch_ = {}
  /\ replacer_mutex = {}
  /\ thread = [t \in Threads |-> Idle]

\* The call returns: the state becomes st ...
Becomes(st) ==
  /\ pages_' = st.pages_
  /\ page_table_' = st.page_table_
  /\ free_list_' = st.free_list_
  /\ replacer_' = st.replacer_
  /\ next_page_id' = st.next_page_id

\* ... and the caller sees the result.
Returned(op, page_id, is_dirty, r) ==
  [op |-> op, page_id |-> page_id, is_dirty |-> is_dirty,
   ret_ptr |-> r.ret_ptr, ret_bool |-> r.ret_bool, out |-> r.out, calls |-> r.calls]

\* The handles the clients hold: the sum of the pin counts.
RECURSIVE HandlesFrom(_, _)
HandlesFrom(s, i) ==
  IF i >= PoolSize THEN 0 ELSE s.pages_[i].pin_count_ + HandlesFrom(s, i + 1)

Handles(s) == HandlesFrom(s, 0)

\* pin_count_ is an int; the clients of the model hold at most MaxHandles
\* handles at a time, so a Fetch that would hand out one more is not called.
FetchPage(page_id) ==
  LET r == FetchPageImpl(State, page_id) IN
  /\ Handles(r.st) <= MaxHandles
  /\ Becomes(r.st)
  /\ last' = Returned("FetchPage", page_id, FALSE, r)
  /\ UNCHANGED callers

UnpinPage(page_id, is_dirty) ==
  LET r == UnpinPageImpl(State, page_id, is_dirty) IN
  /\ Becomes(r.st)
  /\ last' = Returned("UnpinPage", page_id, is_dirty, r)
  /\ UNCHANGED callers

FlushPage(page_id) ==
  LET r == FlushPageImpl(State, page_id) IN
  /\ Becomes(r.st)
  /\ last' = Returned("FlushPage", page_id, FALSE, r)
  /\ UNCHANGED callers

\* AllocatePage counts up without bound; the model stops allocating at NumPages.
NewPage ==
  LET r == NewPageImpl(State) IN
  /\ next_page_id < NumPages
  /\ Handles(r.st) <= MaxHandles
  /\ Becomes(r.st)
  /\ last' = Returned("NewPage", INVALID_PAGE_ID, FALSE, r)
  /\ UNCHANGED callers

DeletePage(page_id) ==
  LET r == DeletePageImpl(State, page_id) IN
  /\ Becomes(r.st)
  /\ last' = Returned("DeletePage", page_id, FALSE, r)
  /\ UNCHANGED callers

FlushAllPages ==
  LET r == FlushAllPagesImpl(State) IN
  /\ Becomes(r.st)
  /\ last' = Returned("FlushAllPages", INVALID_PAGE_ID, FALSE, r)
  /\ UNCHANGED callers

Next ==
  \/ \E page_id \in PageIds : FetchPage(page_id)
  \/ \E page_id \in PageIds, is_dirty \in BOOLEAN : UnpinPage(page_id, is_dirty)
  \/ \E page_id \in PageIds : FlushPage(page_id)
  \/ NewPage
  \/ \E page_id \in PageIds : DeletePage(page_id)
  \/ FlushAllPages

Spec == Init /\ [][Next]_vars

\* ---- the same calls made by parallel threads ----
\* Fetch and NewPage calls that have not yet added their handle to a pin count.
Pending ==
  Cardinality({t \in Threads : /\ thread[t].pc \in {"lock", "replacer", "in_replacer", "write"}
                               /\ thread[t].op \in {"FetchPage", "NewPage"}})

\* Thread t enters a public method with arguments c and arrives at its first
\* statement, the construction of the unique_lock. The clients hold at most
\* MaxHandles handles at a time.
Call(t, c) ==
  /\ thread[t].pc = "idle"
  /\ c.op \in {"FetchPage", "NewPage"} => Handles(State) + Pending < MaxHandles
  /\ thread' = [thread EXCEPT ![t] = [Idle EXCEPT !.pc = "lock", !.op = c.op,
                                                  !.page_id = c.page_id,
                                                  !.is_dirty = c.is_dirty]]
  /\ UNCHANGED <<pages_, page_table_, free_list_, replacer_, next_page_id, last,
                 latch_, replacer_mutex>>

\* std::unique_lock without the wait: the thread goes on whoever holds latch_.
Lock_NoWait(t) ==
  /\ thread[t].pc = "lock"
  /\ latch_' = latch_ \cup {t}
  /\ LET c == thread[t]
         n == ReplacerCalls(State, c)
     IN thread' = [thread EXCEPT ![t].seen = <<State>>,
                                 ![t].rcalls = n,
                                 ![t].pc = IF n > 0 THEN "replacer" ELSE "write"]
  /\ UNCHANGED <<pages_, page_table_, free_list_, replacer_, next_page_id, last,
                 replacer_mutex>>

\* std::unique_lock<std::mutex> guard(latch_): the thread waits until latch_ is
\* free, takes it and reads the manager's state.
Lock(t) ==
  /\ thread[t].pc = "lock"
  /\ latch_ = {}
  /\ latch_' = {t}
  /\ LET c == thread[t]
         n == ReplacerCalls(State, c)
     IN thread' = [thread EXCEPT ![t].seen = <<State>>,
                                 ![t].rcalls = n,
                                 ![t].pc = IF n > 0 THEN "replacer" ELSE "write"]
  /\ UNCHANGED <<pages_, page_table_, free_list_, replacer_, next_page_id, last,
                 replacer_mutex>>

\* std::lock_guard<std::mutex> lock(replacer_mutex) at the head of a replacer call.
ReplacerLock(t) ==
  /\ thread[t].pc = "replacer"
  /\ replacer_mutex = {}
  /\ replacer_mutex' = {t}
  /\ thread' = [thread EXCEPT ![t].pc = "in_replacer"]
  /\ UNCHANGED <<pages_, page_table_, free_list_, replacer_, next_page_id, last, latch_>>

\* The replacer call returns and its lock_guard gives replacer_mutex back.
ReplacerUnlock(t) ==
  /\ thread[t].pc = "in_replacer"
  /\ replacer_mutex' = replacer_mutex \ {t}
  /\ thread' = [thread EXCEPT ![t].rcalls = @ - 1,
                              ![t].pc = IF thread[t].rcalls > 1 THEN "replacer" ELSE "write"]
  /\ UNCHANGED <<pages_, page_table_, free_list_, replacer_, next_page_id, last, latch_>>

\* The body's writes, computed from what the thread read.
Write(t) ==
  /\ thread[t].pc = "write"
  /\ LET r == Apply(thread[t].seen[1], thread[t]) IN
     /\ Becomes(r.st)
     /\ thread' = [thread EXCEPT ![t].pc = "unlock",
                                 ![t].res = <<Returned(thread[t].op, thread[t].page_id,
                                                       thread[t].is_dirty, r)>>]
  /\ UNCHANGED <<last, latch_, replacer_mutex>>

\* A return that leaves latch_ locked when the call failed.
Return_KeepLatchOnFailure(t) ==
  /\ thread[t].pc = "unlock"
  /\ latch_' = IF thread[t].res[1].ret_ptr = Nullptr /\ ~thread[t].res[1].ret_bool
               THEN latch_ ELSE latch_ \ {t}
  /\ thread' = [thread EXCEPT ![t] = Idle]
  /\ UNCHANGED <<pages_, page_table_, free_list_, replacer_, next_page_id, last,
                 replacer_mutex>>

\* return: the destructor of guard unlocks latch_.
Return(t) ==
  /\ thread[t].pc = "unlock"
  /\ latch_' = latch_ \ {t}
  /\ thread' = [thread EXCEPT ![t] = Idle]
  /\ UNCHANGED <<pages_, page_table_, free_list_, replacer_, next_page_id, last,
                 replacer_mutex>>

NextThreads ==
  \E t \in Threads :
    \/ \E c \in Calls : Call(t, c)
    \/ Lock(t)
    \/ ReplacerLock(t)
    \/ ReplacerUnlock(t)
    \/ Write(t)
    \/ Return(t)

SpecThreads == Init /\ [][NextThreads]_vars

\* The scheduler runs every thread that can take a step; a thread need not call.
Fairness ==
  \A t \in Threads :
    /\ WF_vars(Lock(t))
    /\ WF_vars(ReplacerLock(t))
    /\ WF_vars(ReplacerUnlock(t))
    /\ WF_vars(Write(t))
    /\ WF_vars(Return(t))

FairSpecThreads == SpecThreads /\ Fairness

\* The same calls with any page_id_t argument, INVALID_PAGE_ID included.
AnyPageIds == PageIds \cup {INVALID_PAGE_ID}

NextAnyId ==
  \/ \E page_id \in AnyPageIds : FetchPage(page_id)
  \/ \E page_id \in AnyPageIds, is_dirty \in BOOLEAN : UnpinPage(page_id, is_dirty)
  \/ \E page_id \in AnyPageIds : FlushPage(page_id)
  \/ NewPage
  \/ \E page_id \in AnyPageIds : DeletePage(page_id)
  \/ FlushAllPages

SpecAnyId == Init /\ [][NextAnyId]_vars

\* ---- vocabulary of the properties ----
Resident(s, p) == Find(s.page_table_, p)

\* frame f holds page p and the page table says so
Bound(s, f, p) ==
  /\ s.pages_[f].page_id_ = p
  /\ Find(s.page_table_, p)
  /\ s.page_table_[p] = f

CalledWith(r, name, arg) == \E i \in 1 .. Len(r.calls) : r.calls[i] = <<name, arg>>

FetchResults(s) == {FetchPageImpl(s, p) : p \in PageIds}
UnpinResults(s) == {UnpinPageImpl(s, p, d) : p \in PageIds, d \in BOOLEAN}
FlushResults(s) == {FlushPageImpl(s, p) : p \in PageIds}
DeleteResults(s) == {DeletePageImpl(s, p) : p \in PageIds}

\* the outcome of every call a client can make in state s
AllResults(s) ==
  FetchResults(s) \cup UnpinResults(s) \cup FlushResults(s) \cup DeleteResults(s)
    \cup {NewPageImpl(s), FlushAllPagesImpl(s)}

\* ---- C1 ----
\* C1: a frame bound to page p with pin_count > 0 keeps its page id and its
\* page-table entry across every Fetch, NewPage, Delete, Unpin, Flush and
\* FlushAll called with valid page ids (so until its pin count has dropped to 0).
C1_PinnedNeverRecycled ==
  \A r \in AllResults(State) :
    \A f \in Frames :
      LET p == pages_[f].page_id_ IN
      (p \in PageIds /\ Bound(State, f, p) /\ pages_[f].pin_count_ > 0) =>
        Bound(r.st, f, p)

\* a Delete of a pinned resident page was refused and the page is still bound
C1_Witness ==
  /\ last.op = "DeletePage"
  /\ ~last.ret_bool
  /\ \E f \in Frames : Bound(State, f, last.page_id) /\ pages_[f].pin_count_ > 0

\* ---- C2 ----
\* C2: Fetch(p) of a non-resident page, in a state where the free list is
\* non-empty or some resident frame has pin_count 0, returns a frame bound to p
\* with pin_count 1: the head of the free list if there is one, otherwise an
\* unpinned resident frame.
C2_FetchMissSucceedsUnlessSaturated ==
  \A p \in PageIds :
    (/\ ~Resident(State, p)
     /\ \/ free_list_ # <<>>
        \/ \E f \in Frames : pages_[f].page_id_ # INVALID_PAGE_ID /\ pages_[f].pin_count_ = 0)
    => LET r == FetchPageImpl(State, p) IN
       /\ r.ret_ptr # Nullptr
       /\ Bound(r.st, r.ret_ptr, p)
       /\ r.st.pages_[r.ret_ptr].pin_count_ = 1
       /\ IF free_list_ # <<>> THEN r.ret_ptr = Head(free_list_)
          ELSE /\ pages_[r.ret_ptr].page_id_ # INVALID_PAGE_ID
               /\ pages_[r.ret_ptr].pin_count_ = 0

\* ---- C3 ----
\* C3: NewPage returns null iff every frame has pin_count > 0; otherwise it
\* returns a frame bound to the id AllocatePage issued, with pin_count 1, present
\* in the page table, and the id is written to the out parameter.
C3_NewPageNullIffAllPinned ==
  LET r == NewPageImpl(State) IN
  /\ (r.ret_ptr = Nullptr) <=> (\A f \in Frames : pages_[f].pin_count_ > 0)
  /\ r.ret_ptr # Nullptr =>
       /\ r.out = <<next_page_id>>
       /\ CalledWith(r, "AllocatePage", next_page_id)
       /\ Bound(r.st, r.ret_ptr, next_page_id)
       /\ r.st.pages_[r.ret_ptr].pin_count_ = 1

\* ---- C4 ----
\* C4: eviction takes the frame whose pin count dropped to 0 earliest.  With the
\* pool full and every frame pinned, pages a and b each pinned once: after
\* Unpin(a) then Unpin(b), a Fetch of a non-resident q evicts the frame of a
\* and leaves b resident, and a following Fetch of a page q2 that is then not
\* resident evicts the frame of b (pool_size 3, pages 10, 20, 30: Fetch(40)
\* evicts 10, then Fetch(50) evicts 20).
C4_EvictionIsLeastRecentlyUnpinned ==
  \A a, b, q \in PageIds :
    (/\ a # b
     /\ free_list_ = <<>>
     /\ \A f \in Frames : pages_[f].pin_count_ > 0
     /\ Resident(State, a) /\ pages_[page_table_[a]].pin_count_ = 1
     /\ Resident(State, b) /\ pages_[page_table_[b]].pin_count_ = 1
     /\ ~Resident(State, q))
    => LET s1 == UnpinPageImpl(State, a, FALSE).st
           s2 == UnpinPageImpl(s1, b, FALSE).st
           r1 == FetchPageImpl(s2, q)
       IN /\ r1.ret_ptr = page_table_[a]
          /\ ~Resident(r1.st, a) /\ Resident(r1.st, b)
          /\ \A q2 \in PageIds \ {q} :
               ~Resident(r1.st, q2) =>
                 LET r2 == FetchPageImpl(r1.st, q2)
                 IN r2.ret_ptr = page_table_[b] /\ ~Resident(r2.st, b)

\* ---- C5 ----
\* the call wrote page p back before it read another page into frame f,
\* zero-filled it, allocated a page for it or deallocated p
WrittenBackFirst(r, f, p) ==
  \E i \in 1 .. Len(r.calls) :
    /\ r.calls[i] = <<"WritePage", p>>
    /\ \A j \in 1 .. Len(r.calls) :
         (\/ r.calls[j][1] \in {"ReadPage", "AllocatePage"}
          \/ r.calls[j] = <<"ResetMemory", f>>
          \/ r.calls[j] = <<"DeallocatePage", p>>) => i < j

\* C5: Unpin(p, true) sets the dirty flag of p's frame; a dirty frame bound to p
\* stays dirty and bound across every call (Unpin(p, false) included) that does
\* not call WritePage(p, ...); and a call after which the frame is no longer
\* bound to p has called WritePage(p, ...) before rebinding, zero-filling or
\* deallocating.
C5_NoDirtyDataLost ==
  /\ \A p \in PageIds :
       Resident(State, p) =>
         UnpinPageImpl(State, p, TRUE).st.pages_[page_table_[p]].is_dirty_
  /\ \A r \in AllResults(State) :
       \A f \in Frames :
         LET p == pages_[f].page_id_ IN
         (p \in PageIds /\ Bound(State, f, p) /\ pages_[f].is_dirty_) =>
           /\ \/ Bound(r.st, f, p) /\ r.st.pages_[f].is_dirty_
              \/ CalledWith(r, "WritePage", p)
           /\ ~Bound(r.st, f, p) => WrittenBackFirst(r, f, p)

\* a dirty page was deleted: it was written back, then deallocated
C5_Witness ==
  /\ last.op = "DeletePage"
  /\ last.ret_bool
  /\ CalledWith(last, "WritePage", last.page_id)
  /\ ~Resident(State, last.page_id)

\* ---- C6 ----
\* C6: a Fetch or NewPage that returns null leaves the page table, the free
\* list, every frame's metadata, the replacer and the allocation counter as they
\* were and calls nothing on the disk manager; and any call that does call
\* AllocatePage returns a frame bound to the allocated id.
C6_FailureHasNoEffect ==
  /\ \A r \in FetchResults(State) \cup {NewPageImpl(State)} :
       r.ret_ptr = Nullptr => (r.st = State /\ r.calls = <<>>)
  /\ \A r \in AllResults(State) :
       \A i \in 1 .. Len(r.calls) :
         r.calls[i][1] = "AllocatePage" =>
           (r.ret_ptr # Nullptr /\ Bound(r.st, r.ret_ptr, r.calls[i][2]))

\* a Fetch miss returned null on a pool with no free frame
C6_Witness ==
  /\ last.op = "FetchPage"
  /\ last.ret_ptr = Nullptr
  /\ free_list_ = <<>>
  /\ ~Resident(State, last.page_id)

\* ---- C7 ----
\* C7: Unpin of a resident page returns false exactly when pin_count <= 0
\* before the call, and then leaves pin_count as it was; otherwise it returns
\* true and pin_count is one less.  No frame ever has a negative pin_count.
C7_UnpinFloor ==
  /\ \A f \in Frames : pages_[f].pin_count_ >= 0
  /\ \A p \in PageIds, d \in BOOLEAN :
       Resident(State, p) =>
         LET f == page_table_[p]
             r == UnpinPageImpl(State, p, d)
         IN IF pages_[f].pin_count_ <= 0
            THEN ~r.ret_bool /\ r.st.pages_[f].pin_count_ = pages_[f].pin_count_
            ELSE r.ret_bool /\ r.st.pages_[f].pin_count_ = pages_[f].pin_count_ - 1

\* an over-unpin of a resident page was refused
C7_Witness ==
  /\ last.op = "UnpinPage"
  /\ ~last.ret_bool
  /\ Resident(State, last.page_id)
  /\ pages_[page_table_[last.page_id]].pin_count_ = 0

\* ---- C8 ----
\* C8: Delete of a resident page with pin_count # 0 returns false, changes
\* nothing and calls nothing; Delete of a resident page with pin_count = 0
\* returns true, removes p from the page table, calls DeallocatePage(p) and
\* appends the reset frame to the free list.
C8_DeleteResident ==
  \A p \in PageIds :
    Resident(State, p) =>
      LET f == page_table_[p]
          r == DeletePageImpl(State, p)
      IN IF pages_[f].pin_count_ # 0
         THEN ~r.ret_bool /\ r.st = State /\ r.calls = <<>>
         ELSE /\ r.ret_bool
              /\ ~Resident(r.st, p)
              /\ CalledWith(r, "DeallocatePage", p)
              /\ r.st.free_list_ = Append(free_list_, f)
              /\ r.st.pages_[f] = [page_id_ |-> INVALID_PAGE_ID, pin_count_ |-> 0,
                                   is_dirty_ |-> FALSE]

\* an unpinned page was deleted while another frame was already free
C8_Witness ==
  /\ last.op = "DeletePage"
  /\ last.ret_bool
  /\ CalledWith(last, "DeallocatePage", last.page_id)
  /\ Len(free_list_) >= 2

\* ---- C9 ----
\* C9: for a page id that is not in the page table, Unpin returns true, Delete
\* returns true and Flush returns false; each leaves the whole state as it was
\* and calls nothing on the disk manager.
C9_NonResidentIsNoOp ==
  \A p \in PageIds :
    ~Resident(State, p) =>
      /\ \A d \in BOOLEAN :
           LET r == UnpinPageImpl(State, p, d)
           IN r.ret_bool /\ r.st = State /\ r.calls = <<>>
      /\ LET r == DeletePageImpl(State, p)
         IN r.ret_bool /\ r.st = State /\ r.calls = <<>>
      /\ LET r == FlushPageImpl(State, p)
         IN ~r.ret_bool /\ r.st = State /\ r.calls = <<>>

\* Unpin of a page that is not resident returned true
C9_Witness ==
  /\ last.op = "UnpinPage"
  /\ last.ret_bool
  /\ ~Resident(State, last.page_id)
  /\ page_table_ # <<>>

\* ---- C10 ----
PinCountOf(s, p) == IF Resident(s, p) THEN s.pages_[s.page_table_[p]].pin_count_ ELSE 0

\* every frame that stays bound to its page across the call, the page being
\* other than q, keeps its pin count
KeepsPinCounts(r, q) ==
  \A f \in Frames :
    LET p == pages_[f].page_id_ IN
    (p \in PageIds /\ p # q /\ Bound(State, f, p) /\ Bound(r.st, f, p)) =>
      r.st.pages_[f].pin_count_ = pages_[f].pin_count_

\* C10: a Fetch(p) that returns a handle followed at once by Unpin(p, false)
\* leaves the pin count of p's frame at its value before the Fetch (0 if p was
\* not resident).  The pin count of a bound frame counts calls: a binding
\* starts at 1, each later successful Fetch of the page adds 1, each Unpin of
\* the page that returns true takes 1 off, and no other call changes it.
C10_FetchUnpinLaw ==
  /\ \A p \in PageIds :
       LET r1 == FetchPageImpl(State, p) IN
       r1.ret_ptr # Nullptr =>
         LET r2 == UnpinPageImpl(r1.st, p, FALSE) IN
         /\ Bound(r2.st, r1.ret_ptr, p)
         /\ r2.st.pages_[r1.ret_ptr].pin_count_ = PinCountOf(State, p)
         /\ r1.st.pages_[r1.ret_ptr].pin_count_ = PinCountOf(State, p) + 1
  /\ LET r == NewPageImpl(State) IN
       r.ret_ptr # Nullptr => r.st.pages_[r.ret_ptr].pin_count_ = 1
  /\ \A p \in PageIds, d \in BOOLEAN :
       LET r == UnpinPageImpl(State, p, d) IN
       Resident(State, p) =>
         PinCountOf(r.st, p) = PinCountOf(State, p) - (IF r.ret_bool THEN 1 ELSE 0)
  /\ \A q \in PageIds :
       /\ KeepsPinCounts(FetchPageImpl(State, q), q)
       /\ \A d \in BOOLEAN : KeepsPinCounts(UnpinPageImpl(State, q, d), q)
  /\ \A r \in FlushResults(State) \cup DeleteResults(State)
                \cup {NewPageImpl(State), FlushAllPagesImpl(State)} :
       KeepsPinCounts(r, INVALID_PAGE_ID)

\* a page pinned once was fetched again and one handle was given back
C10_Witness ==
  /\ last.op = "UnpinPage"
  /\ last.ret_bool
  /\ ~last.is_dirty
  /\ Resident(State, last.page_id)
  /\ pages_[page_table_[last.page_id]].pin_count_ = 1

\* ---- C11 ----
\* the outcome of every call with any page_id_t argument
AnyResults(s) ==
  {FetchPageImpl(s, p) : p \in AnyPageIds}
    \cup {UnpinPageImpl(s, p, d) : p \in AnyPageIds, d \in BOOLEAN}
    \cup {FlushPageImpl(s, p) : p \in AnyPageIds}
    \cup {DeletePageImpl(s, p) : p \in AnyPageIds}
    \cup {NewPageImpl(s), FlushAllPagesImpl(s)}

\* the call left pin counts, page ids, page table, free list and replacer alone
OnlyDirtyFlagsChange(r) ==
  /\ r.st.page_table_ = page_table_
  /\ r.st.free_list_ = free_list_
  /\ r.st.replacer_ = replacer_
  /\ \A f \in Frames :
       /\ r.st.pages_[f].page_id_ = pages_[f].page_id_
       /\ r.st.pages_[f].pin_count_ = pages_[f].pin_count_

\* C11: Flush of a resident page calls WritePage for it and leaves its frame
\* clean; after FlushAll no frame with a valid page id is dirty; neither changes
\* a pin count, a frame's page id, the page table, the free list or the replacer.
C11_FlushEffect ==
  /\ \A p \in AnyPageIds :
       LET r == FlushPageImpl(State, p) IN
       /\ OnlyDirtyFlagsChange(r)
       /\ Resident(State, p) =>
            /\ r.ret_bool
            /\ CalledWith(r, "WritePage", p)
            /\ ~r.st.pages_[page_table_[p]].is_dirty_
  /\ LET r == FlushAllPagesImpl(State) IN
       /\ OnlyDirtyFlagsChange(r)
       /\ \A f \in Frames :
            r.st.pages_[f].page_id_ # INVALID_PAGE_ID => ~r.st.pages_[f].is_dirty_

\* a pinned dirty page was flushed: it was written, is clean and is still pinned
C11_Witness ==
  /\ last.op = "FlushPage"
  /\ last.ret_bool
  /\ CalledWith(last, "WritePage", last.page_id)
  /\ Resident(State, last.page_id)
  /\ pages_[page_table_[last.page_id]].pin_count_ > 0
  /\ ~pages_[page_table_[last.page_id]].is_dirty_

\* ---- C12 ----
\* C12: whatever page ids the calls are given, INVALID_PAGE_ID included, no call
\* invokes WritePage with page id INVALID_PAGE_ID, and Flush(INVALID_PAGE_ID)
\* returns false.
C12_InvalidPageIdNeverWritten ==
  /\ \A r \in AnyResults(State) : ~CalledWith(r, "WritePage", INVALID_PAGE_ID)
  /\ ~FlushPageImpl(State, INVALID_PAGE_ID).ret_bool

\* ---- C14 ----
InSeq(seq, x) == \E i \in 1 .. Len(seq) : seq[i] = x

\* C14: after a Fetch (hit or miss) or NewPage that returns a frame, that frame
\* is in the replacer's pinned set and not in its eligible sequence, so Size()
\* counts it.
C14_BoundFrameRegisteredPinned ==
  \A r \in FetchResults(State) \cup {NewPageImpl(State)} :
    r.ret_ptr # Nullptr =>
      /\ r.ret_ptr \in r.st.replacer_.pinned
      /\ ~InSeq(r.st.replacer_.used_list, r.ret_ptr)
      /\ Size(r.st.replacer_) >= 1

\* ---- C15 ----
\* C15: after every call, every resident frame with pin_count 0 is in the
\* replacer's eligible sequence.
C15_UnpinnedResidentIsEligible ==
  \A f \in Frames :
    (Bound(State, f, pages_[f].page_id_) /\ pages_[f].pin_count_ = 0) =>
      InSeq(replacer_.used_list, f)

\* ---- C16 ----
\* C16: every frame in the replacer's eligible sequence is resident with
\* pin_count 0 and not on the free list; the frame a Delete puts on the free
\* list is not tracked by the replacer afterwards; Victim never returns a frame
\* that is on the free list.
C16_EligibleIsUnpinnedResident ==
  /\ \A f \in Frames :
       InSeq(replacer_.used_list, f) =>
         /\ Bound(State, f, pages_[f].page_id_)
         /\ pages_[f].pin_count_ = 0
         /\ ~InSeq(free_list_, f)
  /\ \A p \in PageIds :
       LET r == DeletePageImpl(State, p) IN
       (Resident(State, p) /\ r.ret_bool) =>
         LET f == page_table_[p] IN
         /\ InSeq(r.st.free_list_, f)
         /\ ~InSeq(r.st.replacer_.used_list, f)
         /\ f \notin r.st.replacer_.map
         /\ f \notin r.st.replacer_.pinned
  /\ LET v == Victim(replacer_) IN v.ok => ~InSeq(free_list_, v.frame_id[1])

\* a page that had been unpinned to 0 was deleted and its frame is on the free
\* list while another page is resident
C16_Witness ==
  /\ last.op = "DeletePage"
  /\ last.ret_bool
  /\ CalledWith(last, "DeallocatePage", last.page_id)
  /\ free_list_ # <<>>
  /\ page_table_ # <<>>

\* ---- C17 ----
\* C17: with valid page ids, every entry (p, f) of the page table has
\* frames[f].page_id = p and f not on the free list, and no frame is the target
\* of two page ids.
C17_PageTableConsistent ==
  /\ \A p \in DOMAIN page_table_ :
       /\ pages_[page_table_[p]].page_id_ = p
       /\ ~InSeq(free_list_, page_table_[p])
  /\ \A p, q \in DOMAIN page_table_ : page_table_[p] = page_table_[q] => p = q

\* a freed frame was bound again by a Fetch miss while the other frame is bound
C17_Witness ==
  /\ last.op = "FetchPage"
  /\ last.ret_ptr = 0
  /\ CalledWith(last, "ReadPage", last.page_id)
  /\ Cardinality(DOMAIN page_table_) = PoolSize

\* ---- C18 ----
\* C18: after every call each frame is either on the free list exactly once or
\* the target of exactly one page-table entry, never both and never neither, so
\* |free_list| + |page_table| = pool_size.
C18_FramesPartitioned ==
  /\ \A f \in Frames :
       LET onFree == Cardinality({i \in 1 .. Len(free_list_) : free_list_[i] = f})
           inTable == Cardinality({p \in DOMAIN page_table_ : page_table_[p] = f})
       IN onFree + inTable = 1
  /\ Len(free_list_) + Cardinality(DOMAIN page_table_) = PoolSize

\* ---- C19 ----
\* C19: with valid page ids, every frame on the free list has page id
\* INVALID_PAGE_ID, pin_count 0 and is not dirty, and every frame whose page id
\* is INVALID_PAGE_ID is on the free list.
C19_FreeFramesCleanAndUnbound ==
  \A f \in Frames :
    /\ InSeq(free_list_, f) =>
         pages_[f] = [page_id_ |-> INVALID_PAGE_ID, pin_count_ |-> 0, is_dirty_ |-> FALSE]
    /\ pages_[f].page_id_ = INVALID_PAGE_ID => InSeq(free_list_, f)

\* every frame is back on the free list, in another order than at construction
C19_Witness ==
  /\ last.op = "DeletePage"
  /\ last.ret_bool
  /\ Len(free_list_) = PoolSize
  /\ free_list_[1] # 0

\* ---- C13 ----
InBody(t) == thread[t].pc \in {"replacer", "in_replacer", "write"}

\* C13: calls of parallel threads take effect one at a time: between a call's
\* read of the manager's state and its writes no other thread writes, so the
\* state after the call and the values it returns are those of the sequential
\* operation applied to the state the previous call left. A Fetch that returns
\* a frame leaves its page bound to that frame, no frame is bound to two pages,
\* and a second Fetch of a page just loaded from disk pins the same frame to 2.
C13_Linearizable ==
  /\ \A t \in Threads : InBody(t) => thread[t].seen = <<State>>
  /\ \A t \in Threads :
       thread[t].pc = "unlock" =>
         LET r == Apply(thread[t].seen[1], thread[t])
             res == thread[t].res[1]
         IN /\ State = r.st
            /\ res = Returned(thread[t].op, thread[t].page_id, thread[t].is_dirty, r)
            /\ (res.op = "FetchPage" /\ res.ret_ptr # Nullptr) =>
                 /\ Bound(State, res.ret_ptr, res.page_id)
                 /\ pages_[res.ret_ptr].pin_count_ >= 1
  /\ \A p, q \in DOMAIN page_table_ : page_table_[p] = page_table_[q] => p = q
  /\ \A p \in PageIds :
       (~Resident(State, p) /\ free_list_ # <<>>) =>
         LET r1 == FetchPageImpl(State, p)
             r2 == FetchPageImpl(r1.st, p)
         IN /\ r2.ret_ptr = r1.ret_ptr
            /\ r2.st.pages_[r2.ret_ptr].pin_count_ = 2
            /\ Bound(r2.st, r2.ret_ptr, p)
            /\ Cardinality(DOMAIN r2.st.page_table_) = Cardinality(DOMAIN page_table_) + 1

\* two threads are inside Fetch of the same page: one has loaded it from disk
\* into a free frame and not yet returned, the other waits for latch_
C13_Witness ==
  \E t, u \in Threads :
    /\ t # u
    /\ thread[t].pc = "unlock"
    /\ thread[t].op = "FetchPage"
    /\ CalledWith(thread[t].res[1], "ReadPage", thread[t].page_id)
    /\ thread[u].pc = "lock"
    /\ thread[u].op = "FetchPage"
    /\ thread[u].page_id = thread[t].page_id

\* ---- C20 ----
Step ==
  \E t \in Threads :
    Lock(t) \/ ReplacerLock(t) \/ ReplacerUnlock(t) \/ Write(t) \/ Return(t)

\* latch_ is free whenever no thread is inside a body, replacer_mutex is held
\* only by a thread that holds latch_, and a thread waiting for latch_ holds
\* neither; some thread can take a step whenever a call is under way.
LockDiscipline ==
  /\ \A t \in Threads : thread[t].pc \in {"idle", "lock"} =>
                          (t \notin latch_ /\ t \notin replacer_mutex)
  /\ replacer_mutex \subseteq latch_
  /\ (\E t \in Threads : thread[t].pc # "idle") => ENABLED Step

\* C20 as stated: under weak fairness every started call returns, with latch_
\* released, the replacer lock only taken inside latch_, and no deadlock.
C20_EveryStartedOperationReturns ==
  /\ []LockDiscipline
  /\ \A t \in Threads : (thread[t].pc # "idle") ~> (thread[t].pc = "idle")

\* C20: under weak fairness every call that has taken latch_ returns, and has
\* released latch_ when it returns, on every return path; replacer_mutex is
\* only taken by the holder of latch_, never the other way round; in every
\* reachable state with a call under way some thread can take a step.
C20_LockedOperationReturns ==
  /\ []LockDiscipline
  /\ \A t \in Threads :
       (thread[t].pc \notin {"idle", "lock"}) ~> (thread[t].pc = "idle")

\* a call is returning nullptr while holding latch_ and another thread waits
C20_Witness ==
  \E t, u \in Threads :
    /\ thread[t].pc = "unlock"
    /\ thread[t].op \in {"FetchPage", "NewPage"}
    /\ thread[t].res[1].ret_ptr = Nullptr
    /\ t \in latch_
    /\ thread[u].pc = "lock"

====
